---- MODULE Spec2Model ----
(***************************************************************************)
(* TFLiteModelProtector: AES-256-CBC encryption of a model file to a file, *)
(* decryption of an encrypted file into memory, loading of the decrypted   *)
(* buffer, and the key / IV state of a protector instance.                 *)
(*                                                                         *)
(* The cipher session follows OpenSSL's EVP interface for a CBC cipher     *)
(* with padding: update calls carry a partial block, the decrypt update    *)
(* holds the last whole block back, the final calls add or check the       *)
(* padding.  The AES block transform itself is abstracted by a keyed       *)
(* byte-wise bijection on 16-byte blocks (BlockEncrypt / BlockDecrypt).    *)
(* The read buffer of the file loops is ChunkSize bytes; the source uses   *)
(* 4096 and the model scales it to a few cipher blocks.                    *)
(***************************************************************************)
EXTENDS Integers, Sequences, FiniteSets, TLC

\* ------------------------------------------------------------------ sizes

kAesKeyLength == 32

kAesIvLength == 16

\* Block size of EVP_aes_256_cbc().
BlockSize == 16

\* Size of the read buffer of EncryptFile and DecryptFileToMemory (scaled).
ChunkSize == 32

\* Total number of calls made on the protectors in one behaviour.
MaxCalls == 2

\* Bytes one step of std::copy stores before another thread may run.
CopyStride == 16

Threads == {1, 2}

Instances == {1, 2}

\* The protectors a thread calls: thread 1 keeps to the first, thread 2 uses
\* the same one or its own.
InstancesOf(t) == IF t = 1 THEN {1} ELSE Instances

NoThread == 0

Min(a, b) == IF a < b THEN a ELSE b

Max(a, b) == IF a > b THEN a ELSE b

Zeros(n) == [i \in 1..n |-> 0]

Fill(n, b) == [i \in 1..n |-> b]

Tail16(s) == SubSeq(s, Len(s) - BlockSize + 1, Len(s))

\* ----------------------------------------------------------------- cipher

RECURSIVE XorBits(_, _, _)
XorBits(a, b, n) ==
    IF n = 0 THEN 0
    ELSE ((a + b) % 2) + 2 * XorBits(a \div 2, b \div 2, n - 1)

Xor(a, b) == XorBits(a, b, 8)

XorBlock(a, b) == [i \in 1..BlockSize |-> Xor(a[i], b[i])]

\* Stand-in for the AES-256 block encryption under the 32-byte key K: a
\* bijection on blocks that depends on every key byte and is not the identity.
BlockEncrypt(K, B) ==
    [i \in 1..BlockSize |->
        (5 * B[(i % BlockSize) + 1] + K[i] + K[i + BlockSize] + i) % 256]

\* Its inverse (205 * 5 = 1 mod 256).
BlockDecrypt(K, C) ==
    [j \in 1..BlockSize |->
        LET i == ((j + BlockSize - 2) % BlockSize) + 1
        IN (205 * (C[i] + 1024 - K[i] - K[i + BlockSize] - i)) % 256]

Block(data, k) == SubSeq(data, BlockSize * (k - 1) + 1, BlockSize * k)

\* CBC encryption of blocks lo..hi of data, chained from iv.
RECURSIVE CbcEnc(_, _, _, _, _)
CbcEnc(K, iv, data, lo, hi) ==
    IF lo > hi THEN <<>>
    ELSE IF lo = hi THEN <<>> \o BlockEncrypt(K, XorBlock(Block(data, lo), iv))
    ELSE LET mid == (lo + hi) \div 2
             left == CbcEnc(K, iv, data, lo, mid)
         IN left \o CbcEnc(K, Tail16(left), data, mid + 1, hi)

\* CBC decryption of blocks lo..hi of data; block 1 is chained from iv.
RECURSIVE CbcDec(_, _, _, _, _)
CbcDec(K, iv, data, lo, hi) ==
    IF lo > hi THEN <<>>
    ELSE IF lo = hi
         THEN <<>> \o XorBlock(BlockDecrypt(K, Block(data, lo)),
                               IF lo = 1 THEN iv ELSE Block(data, lo - 1))
    ELSE LET mid == (lo + hi) \div 2
         IN CbcDec(K, iv, data, lo, mid) \o CbcDec(K, iv, data, mid + 1, hi)

\* EVP_CIPHER_CTX after EVP_EncryptInit_ex / EVP_DecryptInit_ex: the key, the
\* IV it was started with (oiv), the running chaining value (iv), the partial
\* block (buf) and the block the decrypt update holds back (final).
CipherInit(K, V) ==
    [key |-> K, oiv |-> V, iv |-> V, buf |-> <<>>,
     final |-> <<>>, final_used |-> FALSE]

NoCtx == CipherInit(<<>>, <<>>)

\* EVP_EncryptUpdate that forgets the partial block between calls.
EncryptUpdateNoCarry(ctx, inp) ==
    LET nb  == Len(inp) \div BlockSize
        out == CbcEnc(ctx.key, ctx.iv, inp, 1, nb)
    IN [ctx |-> [ctx EXCEPT !.iv = IF nb > 0 THEN Tail16(out) ELSE @], out |-> out]

\* EVP_EncryptUpdate: encrypts the whole blocks of buf \o inp, keeps the rest.
EncryptUpdate(ctx, inp) ==
    LET data == ctx.buf \o inp
        nb   == Len(data) \div BlockSize
        out  == CbcEnc(ctx.key, ctx.iv, data, 1, nb)
    IN [ctx |-> [ctx EXCEPT !.iv  = IF nb > 0 THEN Tail16(out) ELSE @,
                            !.buf = SubSeq(data, BlockSize * nb + 1, Len(data))],
        out |-> out]

\* The padding EVP_EncryptFinal_ex appends: n bytes of value n, 1 <= n <= 16.
PadLen(buflen) == BlockSize - buflen

\* EVP_EncryptFinal_ex that emits no padding block for block-aligned input.
EncryptFinalUnpadded(ctx) ==
    IF Len(ctx.buf) = 0 THEN <<>>
    ELSE CbcEnc(ctx.key, ctx.iv, ctx.buf \o Fill(PadLen(Len(ctx.buf)), PadLen(Len(ctx.buf))), 1, 1)

\* EVP_EncryptFinal_ex: pads the partial block and encrypts it.
EncryptFinal(ctx) ==
    LET n == PadLen(Len(ctx.buf))
    IN CbcEnc(ctx.key, ctx.iv, ctx.buf \o Fill(n, n), 1, 1)

\* EVP_DecryptUpdate with padding enabled: emits the block held back by the
\* previous call, decrypts the whole blocks, and holds the last one back when
\* the input ended on a block boundary.
DecryptUpdate(ctx, inp) ==
    IF Len(inp) = 0 THEN [ctx |-> ctx, out |-> <<>>]
    ELSE
    LET data == ctx.buf \o inp
        nb   == Len(data) \div BlockSize
        dec  == CbcDec(ctx.key, ctx.iv, data, 1, nb)
        rest == SubSeq(data, BlockSize * nb + 1, Len(data))
        pre  == IF ctx.final_used THEN ctx.final ELSE <<>>
        hold == Len(rest) = 0
    IN [ctx |-> [ctx EXCEPT !.iv  = IF nb > 0 THEN Block(data, nb) ELSE @,
                            !.buf = rest,
                            !.final = IF hold THEN Tail16(dec) ELSE @,
                            !.final_used = hold],
        out |-> pre \o (IF hold THEN SubSeq(dec, 1, Len(dec) - BlockSize) ELSE dec)]

\* The padding check of EVP_DecryptFinal_ex on the held block.
PaddingOk(ctx) ==
    /\ Len(ctx.buf) = 0
    /\ ctx.final_used
    /\ LET n == ctx.final[BlockSize]
       IN /\ n >= 1
          /\ n <= BlockSize
          /\ \A i \in (BlockSize - n + 1)..BlockSize : ctx.final[i] = n

\* EVP_DecryptFinal_ex: return code and the bytes it writes to its out buffer.
DecryptFinal(ctx) ==
    IF PaddingOk(ctx)
    THEN [ok |-> TRUE, out |-> SubSeq(ctx.final, 1, BlockSize - ctx.final[BlockSize])]
    ELSE [ok |-> FALSE, out |-> <<>>]

\* The file EncryptFile writes for plain under (K, V) when every step succeeds:
\* the loop of lines 148-154 run to its end on a string.
RECURSIVE EncryptStream(_, _, _)
EncryptStream(ctx, plain, pos) ==
    IF pos >= Len(plain) THEN EncryptFinal(ctx)
    ELSE LET n == Min(ChunkSize, Len(plain) - pos)
             u == EncryptUpdate(ctx, SubSeq(plain, pos + 1, pos + n))
         IN u.out \o EncryptStream(u.ctx, plain, pos + n)

EncryptBytes(plain, K, V) == EncryptStream(CipherInit(K, V), plain, 0)

\* AES-256-CBC with PKCS#7 padding of a whole byte string in one piece.
Cbc256(plain, K, V) ==
    LET n == PadLen(Len(plain) % BlockSize)
    IN CbcEnc(K, V, plain \o Fill(n, n), 1, (Len(plain) + n) \div BlockSize)

\* EVP_MAX_BLOCK_LENGTH of <openssl/evp.h>.
EVP_MAX_BLOCK_LENGTH == 32

\* ------------------------------------------------------------------ model

\* "TFL3", the file identifier BuildFromBuffer looks for at offset 4.
Magic == <<84, 70, 76, 51>>

\* tflite::FlatBufferModel::BuildFromBuffer(data, size): a model is built over
\* the caller's bytes when they carry the identifier, and nullptr is returned
\* otherwise.  Nothing is copied.
BuildFromBuffer(buf) ==
    /\ Len(buf) >= 8
    /\ SubSeq(buf, 5, 8) = Magic

\* A plaintext of n bytes; it is a loadable model when n >= 8.
MkModel(n, seed) ==
    [i \in 1..n |-> IF i \in 5..8 THEN Magic[i - 4] ELSE (i * seed + n) % 256]


\* ------------------------------------------------------------ file system

PModel == "model.tflite"

PEnc == "model.enc"

POther == "other.enc"

PMissing == "missing.tflite"

PNoDir == "nodir/model.enc"

Paths == {PModel, PEnc, POther, PMissing, PNoDir}

\* std::ofstream can create or truncate every path but the one whose
\* directory does not exist.
Writable(p) == p # PNoDir

File(d) == [exists |-> TRUE, data |-> d]

NoFile == [exists |-> FALSE, data |-> <<>>]

\* Paths the callers pass: EncryptFile(input, output) and the encrypted file
\* of DecryptFileToMemory / LoadEncryptedModel.
EncInputs == {PModel, PMissing}

EncOutputs == {PEnc, PNoDir}

DecInputs == {PEnc, POther}

\* --------------------------------------------------------- caller's inputs

ZeroKey == Zeros(kAesKeyLength)

ZeroIv == Zeros(kAesIvLength)

KeyA == [i \in 1..kAesKeyLength |-> (7 * i + 1) % 256]

IvA == [i \in 1..kAesIvLength |-> (11 * i + 2) % 256]

KeyB == [i \in 1..kAesKeyLength |-> (13 * i + 5) % 256]

IvB == [i \in 1..kAesIvLength |-> (3 * i + 9) % 256]

\* Arguments of SetCustomKeyAndIv: two well-formed pairs and the malformed
\* ones (a key of 0, 31, 33 bytes, an IV of 0, 15, 17 bytes, both wrong).
SetArgs ==
    {<<KeyA, IvA>>, <<KeyB, IvB>>,
     <<Zeros(0), IvA>>, <<Zeros(31), IvA>>, <<Zeros(33), IvA>>,
     <<KeyA, Zeros(0)>>, <<KeyA, Zeros(15)>>, <<KeyA, Zeros(17)>>,
     <<Zeros(31), Zeros(15)>>}

\* Plaintext lengths: empty, one byte, one block, not a multiple of the block,
\* a whole number of chunks, several chunks and a partial block.
PlainLens == {0, 1, BlockSize, 2 * BlockSize + 8, 2 * ChunkSize, 3 * ChunkSize + 4}

Plains == {MkModel(n, 7) : n \in PlainLens}

\* The model behind other.enc.
OtherPlain == MkModel(2 * BlockSize, 3)

OtherCipher == EncryptBytes(OtherPlain, ZeroKey, ZeroIv)

\* other.enc as the callers may find it: intact, with its last byte cut off,
\* or with its last block damaged.
Damaged(c) == [c EXCEPT ![Len(c)] = (c[Len(c)] + 1) % 256]

Others == {OtherCipher, SubSeq(OtherCipher, 1, Len(OtherCipher) - 1), Damaged(OtherCipher)}

\* What a caller's vector holds when it is passed to DecryptFileToMemory.
UserBuffers == {<<>>, <<1, 2, 3>>}

\* ------------------------------------------------------------------ state

VARIABLES
    threads,          \* the threads that call into the protectors
    fs,               \* path -> file
    kEncryptionKey,   \* instance -> key bytes
    kEncryptionIv,    \* instance -> IV bytes
    model_buffer_,    \* instance -> decrypted bytes
    mutex_,           \* the static mutex: its holder, or NoThread
    pc,               \* thread -> where it is in its call
    call,             \* thread -> the call it makes (made last) and its arguments
    ctx,              \* thread -> EVP_CIPHER_CTX of the running session
    pos,              \* thread -> bytes read from the input / bytes copied
    outGood,          \* thread -> the output stream has seen no failed write
    model_data,       \* thread -> the vector passed to DecryptFileToMemory
    ret,              \* thread -> what the last call returned or threw
    obs,              \* thread -> what the call's session did (history)
    prov,             \* path -> how the file was produced (history)
    calls,            \* calls made so far
    chunk,            \* size of the read buffer of the file loops
    handle,           \* instance -> size of the buffer the model handed out last
                      \* was built over, or NoHandle
    active            \* instance -> pair of the last SetCustomKeyAndIv that
                      \* returned normally (history)

vars == <<threads, fs, kEncryptionKey, kEncryptionIv, model_buffer_, mutex_, pc,
          call, ctx, pos, outGood, model_data, ret, obs, prov, calls, chunk, handle,
          active>>

NoCall == [name |-> "", inst |-> 0, input |-> "", output |-> "", key |-> <<>>, iv |-> <<>>]

\* ret: val is the bool EncryptFile returns, or whether the returned
\* unique_ptr is non-null; size is the length BuildFromBuffer was given; exc
\* is the exception that left the call.
NoRet == [val |-> FALSE, size |-> 0, exc |-> ""]

\* obs: the key and IV the session was initialised with, the target vector on
\* entry, whether every write succeeded, EVP_DecryptFinal_ex's return code,
\* the bytes passed to the update calls, the number of final calls, the largest
\* out_len a call reported, whether LoadEncryptedModel caught an exception,
\* and whether RAND_bytes filled the key and the IV.
NoObs == [started |-> FALSE, key |-> <<>>, iv |-> <<>>, entry |-> <<>>,
          written |-> TRUE, final_ok |-> TRUE,
          fed |-> <<>>, finals |-> 0, out_max |-> 0, caught |-> FALSE,
          key_made |-> FALSE, iv_made |-> FALSE]

NoProv == [made |-> FALSE, byRun |-> FALSE, plain |-> <<>>, key |-> <<>>, iv |-> <<>>]

Made(plain, K, V, run) == [made |-> TRUE, byRun |-> run, plain |-> plain, key |-> K, iv |-> V]

\* handle: no model has been handed out on the instance.
NoHandle == -1

\* active: the pair a SetCustomKeyAndIv installed, or none since construction.
NoPair == [set |-> FALSE, key |-> <<>>, iv |-> <<>>]

Pair(K, V) == [set |-> TRUE, key |-> K, iv |-> V]

\* The state after construction of the protectors (key and IV zeroed by the
\* member initialisers, empty model_buffer_) or after a SetCustomKeyAndIv made
\* on each of them, over the files the callers find: the model, other.enc,
\* and model.enc absent or made by an earlier run of the tool under the
\* default key.
InitWith(T, plains, others, pairs, sizes) ==
    /\ threads = T
    /\ \E plain \in plains, other \in others, had \in BOOLEAN :
          /\ fs = [p \in Paths |->
                     IF p = PModel THEN File(<<>> \o plain)
                     ELSE IF p = POther THEN File(other)
                     ELSE IF p = PEnc /\ had THEN File(EncryptBytes(<<>> \o plain, ZeroKey, ZeroIv))
                     ELSE NoFile]
          /\ prov = [p \in Paths |->
                     IF p = POther /\ other = OtherCipher
                     THEN Made(<<>> \o OtherPlain, ZeroKey, ZeroIv, FALSE)
                     ELSE IF p = PEnc /\ had THEN Made(<<>> \o plain, ZeroKey, ZeroIv, FALSE)
                     ELSE NoProv]
    /\ \E a \in pairs :
          /\ kEncryptionKey = [i \in Instances |-> a[1]]
          /\ kEncryptionIv = [i \in Instances |-> a[2]]
          /\ active = [i \in Instances |-> IF a = <<ZeroKey, ZeroIv>> THEN NoPair ELSE Pair(a[1], a[2])]
    /\ model_buffer_ = [i \in Instances |-> <<>>]
    /\ mutex_ = NoThread
    /\ pc = [t \in Threads |-> "idle"]
    /\ call = [t \in Threads |-> NoCall]
    /\ ctx = [t \in Threads |-> NoCtx]
    /\ pos = [t \in Threads |-> 0]
    /\ outGood = [t \in Threads |-> TRUE]
    /\ model_data = [t \in Threads |-> <<>>]
    /\ ret = [t \in Threads |-> NoRet]
    /\ obs = [t \in Threads |-> NoObs]
    /\ calls = 0
    /\ chunk \in sizes
    /\ handle = [i \in Instances |-> NoHandle]

\* Two threads on freshly constructed protectors and two intact files.
Init == InitWith(Threads, {MkModel(3 * BlockSize, 7)}, {OtherCipher}, {<<ZeroKey, ZeroIv>>},
                {ChunkSize})

\* Sizes of the read buffer: one byte, around one block, the buffer of the
\* other specifications, one byte more, and a buffer larger than every file.
ReadSizes == {1, BlockSize - 1, BlockSize, BlockSize + 1, ChunkSize, ChunkSize + 1, 4 * ChunkSize}

\* One thread on every plaintext length, under a custom pair, with the read
\* buffer of lines 144 and 185 at each size.
InitChunk == InitWith({1}, Plains, {OtherCipher}, {<<KeyA, IvA>>}, ReadSizes)

\* One thread on every plaintext length and every state of other.enc.
InitSeq == InitWith({1}, Plains, Others, {<<ZeroKey, ZeroIv>>, <<KeyA, IvA>>}, {ChunkSize})

\* -------------------------------------------------------------- the calls

Busy(u) == pc[u] \notin {"idle", "done"}

CanCall(t) == t \in threads /\ pc[t] = "idle" /\ calls < MaxCalls

Writing(u, p) == Busy(u) /\ call[u].name = "EncryptFile" /\ call[u].output = p

Reading(u, p) == Busy(u) /\ call[u].input = p

\* The callers do not use a file while another call writes it.
CanRead(t, p) == \A u \in threads \ {t} : ~Writing(u, p)

CanWrite(t, p) == \A u \in threads \ {t} : ~Writing(u, p) /\ ~Reading(u, p)

\* The loop test of lines 148 and 189 without its second operand: a read that
\* does not fill the buffer ends the loop.
MoreInputFull(t) == Len(fs[call[t].input].data) - pos[t] >= chunk

\* The loop test of lines 148 and 189, in.read(buffer, size) || in.gcount():
\* the read got at least one byte.
MoreInput(t) == pos[t] < Len(fs[call[t].input].data)

\* A read that takes the whole rest of the file, whatever the buffer's size.
GcountAll(t) == Len(fs[call[t].input].data) - pos[t]

\* in.gcount() after the read: a full buffer, or what was left of the file.
Gcount(t) == Min(chunk, Len(fs[call[t].input].data) - pos[t])

\* The bytes the turn passes to the update call: buffer.data(), in.gcount().
Passed(t) ==
    IF MoreInput(t)
    THEN SubSeq(fs[call[t].input].data, pos[t] + 1, pos[t] + Gcount(t))
    ELSE <<>>

\* out.write(data, n) on thread t's output stream: a failed write (a full
\* disk) stores nothing and leaves the stream bad, and a bad stream ignores
\* every later write.
WriteOut(t, p, bytes, wok) ==
    /\ outGood' = [outGood EXCEPT ![t] = @ /\ wok]
    /\ fs' = IF outGood[t] /\ wok
             THEN [fs EXCEPT ![p].data = @ \o bytes]
             ELSE fs
    /\ obs' = [obs EXCEPT ![t].written = @ /\ outGood[t] /\ wok,
                          ![t].fed = @ \o Passed(t),
                          ![t].finals = IF MoreInput(t) THEN @ ELSE @ + 1,
                          ![t].out_max = Max(@, Len(bytes))]

WriteOutcomes(bytes) == IF Len(bytes) > 0 THEN BOOLEAN ELSE {TRUE}

\* EncryptFile, lines 133-146: both streams are constructed, then tested; the
\* session is initialised with the instance's key and IV.
EncryptFile(t, i, inp, outp) ==
    /\ CanCall(t)
    /\ CanRead(t, inp)
    /\ CanWrite(t, outp)
    /\ calls' = calls + 1
    /\ call' = [call EXCEPT ![t] = [NoCall EXCEPT !.name = "EncryptFile", !.inst = i,
                                                  !.input = inp, !.output = outp]]
    /\ fs' = IF Writable(outp) THEN [fs EXCEPT ![outp] = File(<<>>)] ELSE fs
    /\ prov' = IF Writable(outp) THEN [prov EXCEPT ![outp] = NoProv] ELSE prov
    /\ pos' = [pos EXCEPT ![t] = 0]
    /\ outGood' = [outGood EXCEPT ![t] = TRUE]
    /\ IF fs[inp].exists /\ Writable(outp)
       THEN /\ ctx' = [ctx EXCEPT ![t] = CipherInit(kEncryptionKey[i], kEncryptionIv[i])]
            /\ obs' = [obs EXCEPT ![t] = [NoObs EXCEPT !.started = TRUE,
                                                       !.key = kEncryptionKey[i],
                                                       !.iv = kEncryptionIv[i]]]
            /\ pc' = [pc EXCEPT ![t] = "enc_loop"]
            /\ ret' = [ret EXCEPT ![t] = NoRet]
       ELSE /\ ctx' = [ctx EXCEPT ![t] = NoCtx]
            /\ obs' = [obs EXCEPT ![t] = NoObs]
            /\ pc' = [pc EXCEPT ![t] = "done"]
            /\ ret' = [ret EXCEPT ![t] = [NoRet EXCEPT !.val = FALSE]]
    /\ UNCHANGED <<threads, kEncryptionKey, kEncryptionIv, model_buffer_, mutex_, model_data, chunk, handle, active>>

\* One turn of the loop of lines 148-151: read up to chunk bytes,
\* EVP_EncryptUpdate, write what it produced.
EncryptLoop(t) ==
    /\ t \in threads
    /\ pc[t] = "enc_loop"
    /\ MoreInput(t)
    /\ LET u == EncryptUpdate(ctx[t], Passed(t))
       IN /\ ctx' = [ctx EXCEPT ![t] = u.ctx]
          /\ pos' = [pos EXCEPT ![t] = @ + Gcount(t)]
          /\ \E wok \in WriteOutcomes(u.out) : WriteOut(t, call[t].output, u.out, wok)
    /\ UNCHANGED <<threads, kEncryptionKey, kEncryptionIv, model_buffer_, mutex_, pc,
                   call, model_data, ret, prov, calls, chunk, handle, active>>

\* Lines 153-157, once the read finds no more input: EVP_EncryptFinal_ex, the
\* last write, and the return value.
EncryptFileReturn == TRUE

EncryptEnd(t) ==
    /\ t \in threads
    /\ pc[t] = "enc_loop"
    /\ ~MoreInput(t)
    /\ LET out == EncryptFinal(ctx[t])
       IN \E wok \in WriteOutcomes(out) :
             /\ WriteOut(t, call[t].output, out, wok)
             /\ prov' = IF outGood[t] /\ wok /\ obs[t].written
                        THEN [prov EXCEPT ![call[t].output] =
                                 Made(fs[call[t].input].data, obs[t].key, obs[t].iv, TRUE)]
                        ELSE prov
    /\ ctx' = [ctx EXCEPT ![t] = NoCtx]
    /\ pc' = [pc EXCEPT ![t] = "done"]
    /\ ret' = [ret EXCEPT ![t] = [NoRet EXCEPT !.val = EncryptFileReturn]]
    /\ UNCHANGED <<threads, kEncryptionKey, kEncryptionIv, model_buffer_, mutex_,
                   call, pos, model_data, calls, chunk, handle, active>>


\* The vector DecryptFileToMemory appends to: the caller's, or model_buffer_
\* when LoadEncryptedModel makes the call.
IsLoad(t) == call[t].name = "LoadEncryptedModel"

\* A stream that reports no failure for a missing file.
InputOpensAlways(p) == TRUE

\* std::ifstream in(input_file, std::ios::binary) of line 175 and the test
\* of line 177: the stream is good when the file exists.
InputOpens(p) == fs[p].exists

\* DecryptFileToMemory, lines 175-187, for the call c of thread t on the
\* vector target: the stream is tested, the session is initialised with the
\* instance's key and IV.  next is where a LoadEncryptedModel goes on when the
\* function returns early.
DecryptOpen(t, c, target, next) ==
    /\ pos' = [pos EXCEPT ![t] = 0]
    /\ IF InputOpens(c.input)
       THEN /\ ctx' = [ctx EXCEPT ![t] = CipherInit(kEncryptionKey[c.inst], kEncryptionIv[c.inst])]
            /\ obs' = [obs EXCEPT ![t] = [NoObs EXCEPT !.started = TRUE,
                                                       !.key = kEncryptionKey[c.inst],
                                                       !.iv = kEncryptionIv[c.inst],
                                                       !.entry = target]]
            /\ pc' = [pc EXCEPT ![t] = "dec_loop"]
       ELSE /\ ctx' = [ctx EXCEPT ![t] = NoCtx]
            /\ obs' = [obs EXCEPT ![t] = [NoObs EXCEPT !.entry = target]]
            /\ pc' = [pc EXCEPT ![t] = next]

\* A caller's own call of DecryptFileToMemory(path, model_data).
DecryptFileToMemory(t, i, path, buffer) ==
    /\ CanCall(t)
    /\ CanRead(t, path)
    /\ calls' = calls + 1
    /\ LET c == [NoCall EXCEPT !.name = "DecryptFileToMemory", !.inst = i, !.input = path]
       IN /\ call' = [call EXCEPT ![t] = c]
          /\ DecryptOpen(t, c, buffer, "done")
    /\ model_data' = [model_data EXCEPT ![t] = buffer]
    /\ ret' = [ret EXCEPT ![t] = NoRet]
    /\ UNCHANGED <<threads, fs, kEncryptionKey, kEncryptionIv, model_buffer_, mutex_,
                   outGood, prov, chunk, handle, active>>

\* A scope that is left with the mutex still held by t.
StillHeld(t) == t

\* mutex_ after ~lock_guard() in thread t, on any way out of the scope of
\* lines 225-232.
Released(t) == NoThread

\* model_data.insert(end, first, last) of lines 191: appends, or throws
\* std::bad_alloc when the vector cannot grow.
InsertOutcomes(bytes) == IF Len(bytes) > 0 THEN BOOLEAN ELSE {TRUE}

\* One turn of the loop of lines 189-192: read up to chunk bytes,
\* EVP_DecryptUpdate, append what it produced.  A std::bad_alloc leaves
\* DecryptFileToMemory; LoadEncryptedModel catches it (lines 229-232), returns
\* nullptr and its lock_guard releases the mutex.
DecryptLoop(t) ==
    /\ t \in threads
    /\ pc[t] = "dec_loop"
    /\ MoreInput(t)
    /\ LET u == DecryptUpdate(ctx[t], Passed(t))
       IN \E grown \in InsertOutcomes(u.out) :
          /\ IF grown
             THEN /\ ctx' = [ctx EXCEPT ![t] = u.ctx]
                  /\ pos' = [pos EXCEPT ![t] = @ + Gcount(t)]
                  /\ IF IsLoad(t)
                     THEN /\ model_buffer_' = [model_buffer_ EXCEPT ![call[t].inst] = @ \o u.out]
                          /\ UNCHANGED model_data
                     ELSE /\ model_data' = [model_data EXCEPT ![t] = @ \o u.out]
                          /\ UNCHANGED model_buffer_
                  /\ UNCHANGED <<pc, ret, mutex_>>
             ELSE /\ ctx' = [ctx EXCEPT ![t] = NoCtx]
                  /\ pc' = [pc EXCEPT ![t] = "done"]
                  /\ ret' = [ret EXCEPT ![t] = [NoRet EXCEPT !.exc = IF IsLoad(t) THEN "" ELSE "bad_alloc"]]
                  /\ mutex_' = IF IsLoad(t) THEN Released(t) ELSE mutex_
                  /\ UNCHANGED <<pos, model_buffer_, model_data>>
          /\ obs' = [obs EXCEPT ![t].out_max = Max(@, Len(u.out)),
                                ![t].caught = IsLoad(t) /\ ~grown]
    /\ UNCHANGED <<threads, fs, kEncryptionKey, kEncryptionIv, call, outGood, prov, calls,
                   chunk, handle, active>>

\* What DecryptFileToMemory appends to the vector after the loop: line 194
\* leaves the bytes of EVP_DecryptFinal_ex in plain_buffer.
AppendedAfterLoop(final) == <<>>

\* Lines 194-197, once the read finds no more input: EVP_DecryptFinal_ex, whose
\* return code is not read, and the return.
DecryptEnd(t) ==
    /\ t \in threads
    /\ pc[t] = "dec_loop"
    /\ ~MoreInput(t)
    /\ LET f == DecryptFinal(ctx[t])
       IN /\ obs' = [obs EXCEPT ![t].final_ok = f.ok,
                                ![t].finals = @ + 1,
                                ![t].out_max = Max(@, Len(f.out))]
          /\ IF IsLoad(t)
             THEN /\ model_buffer_' = [model_buffer_ EXCEPT ![call[t].inst] = @ \o AppendedAfterLoop(f)]
                  /\ UNCHANGED model_data
             ELSE /\ model_data' = [model_data EXCEPT ![t] = @ \o AppendedAfterLoop(f)]
                  /\ UNCHANGED model_buffer_
    /\ ctx' = [ctx EXCEPT ![t] = NoCtx]
    /\ pc' = [pc EXCEPT ![t] = IF IsLoad(t) THEN "load_model" ELSE "done"]
    /\ UNCHANGED <<threads, fs, kEncryptionKey, kEncryptionIv, mutex_, call, pos,
                   outGood, ret, prov, calls, chunk, handle, active>>

\* A caller enters LoadEncryptedModel(model_path) and reaches the lock_guard.
LoadEncryptedModel(t, i, path) ==
    /\ CanCall(t)
    /\ CanRead(t, path)
    /\ calls' = calls + 1
    /\ call' = [call EXCEPT ![t] = [NoCall EXCEPT !.name = "LoadEncryptedModel",
                                                  !.inst = i, !.input = path]]
    /\ pc' = [pc EXCEPT ![t] = "lock"]
    /\ ret' = [ret EXCEPT ![t] = NoRet]
    /\ obs' = [obs EXCEPT ![t] = NoObs]
    /\ UNCHANGED <<threads, fs, kEncryptionKey, kEncryptionIv, model_buffer_, mutex_,
                   ctx, pos, outGood, model_data, prov, chunk, handle, active>>

\* A lock_guard that does not wait.
MayLockAlways(t) == TRUE

\* Whether std::lock_guard<std::mutex> lock(mutex_) of thread t can go on.
MayLock(t) == mutex_ = NoThread

\* Lines 225-227: the mutex is taken and DecryptFileToMemory is entered on
\* model_buffer_ as it stands.
LoadLock(t) ==
    /\ t \in threads
    /\ pc[t] = "lock"
    /\ MayLock(t)
    /\ mutex_' = t
    /\ DecryptOpen(t, call[t], model_buffer_[call[t].inst], "load_model")
    /\ UNCHANGED <<threads, fs, kEncryptionKey, kEncryptionIv, model_buffer_, call,
                   outGood, model_data, ret, prov, calls, chunk, handle, active>>

\* Line 228 and the end of the scope: LoadModel(model_buffer_) builds over the
\* buffer, the handle is returned and the lock_guard releases the mutex.
LoadModel(t) ==
    /\ t \in threads
    /\ pc[t] = "load_model"
    /\ ret' = [ret EXCEPT ![t] = [NoRet EXCEPT
                  !.val = BuildFromBuffer(model_buffer_[call[t].inst]),
                  !.size = Len(model_buffer_[call[t].inst])]]
    /\ mutex_' = Released(t)
    /\ handle' = IF BuildFromBuffer(model_buffer_[call[t].inst])
                 THEN [handle EXCEPT ![call[t].inst] = Len(model_buffer_[call[t].inst])]
                 ELSE handle
    /\ pc' = [pc EXCEPT ![t] = "done"]
    /\ UNCHANGED <<threads, fs, kEncryptionKey, kEncryptionIv, model_buffer_, call, ctx,
                   pos, outGood, model_data, obs, prov, calls, chunk, active>>

\* The test of line 284 with && for ||.
BadLengthBoth(key, iv) == Len(key) # kAesKeyLength /\ Len(iv) # kAesIvLength

\* The test of line 284.
BadLength(key, iv) == Len(key) # kAesKeyLength \/ Len(iv) # kAesIvLength

\* SetCustomKeyAndIv, lines 284-286: the lengths are tested before anything
\* is stored.
SetCustomKeyAndIv(t, i, key, iv) ==
    /\ CanCall(t)
    /\ calls' = calls + 1
    /\ call' = [call EXCEPT ![t] = [NoCall EXCEPT !.name = "SetCustomKeyAndIv",
                                                  !.inst = i, !.key = key, !.iv = iv]]
    /\ pos' = [pos EXCEPT ![t] = 0]
    /\ obs' = [obs EXCEPT ![t] = NoObs]
    /\ IF BadLength(key, iv)
       THEN /\ pc' = [pc EXCEPT ![t] = "done"]
            /\ ret' = [ret EXCEPT ![t] = [NoRet EXCEPT !.exc = "invalid_argument"]]
       ELSE /\ pc' = [pc EXCEPT ![t] = "copy_key"]
            /\ ret' = [ret EXCEPT ![t] = NoRet]
    /\ UNCHANGED <<threads, fs, kEncryptionKey, kEncryptionIv, model_buffer_, mutex_,
                   ctx, outGood, model_data, prov, chunk, handle, active>>

\* A std::copy that stores nothing.
CopyNothing(dst, src, from, n) == dst

\* dst after std::copy has stored bytes from+1..from+n of src.
CopyBytes(dst, src, from, n) ==
    [j \in 1..Len(dst) |-> IF j > from /\ j <= from + n THEN src[j] ELSE dst[j]]

\* Line 288: std::copy(key.begin(), key.end(), kEncryptionKey), a stride at a
\* time; no lock is held.
CopyKey(t) ==
    /\ t \in threads
    /\ pc[t] = "copy_key"
    /\ LET n == Min(CopyStride, kAesKeyLength - pos[t])
       IN /\ kEncryptionKey' = [kEncryptionKey EXCEPT ![call[t].inst] =
                                   CopyBytes(@, call[t].key, pos[t], n)]
          /\ IF pos[t] + n >= kAesKeyLength
             THEN /\ pos' = [pos EXCEPT ![t] = 0]
                  /\ pc' = [pc EXCEPT ![t] = "copy_iv"]
             ELSE /\ pos' = [pos EXCEPT ![t] = @ + n]
                  /\ UNCHANGED pc
    /\ UNCHANGED <<threads, fs, kEncryptionIv, model_buffer_, mutex_, call, ctx,
                   outGood, model_data, ret, obs, prov, calls, chunk, handle, active>>

\* Line 289: std::copy(iv.begin(), iv.end(), kEncryptionIv), then the return
\* (lines 291-303 only log).
CopyIv(t) ==
    /\ t \in threads
    /\ pc[t] = "copy_iv"
    /\ LET n == Min(CopyStride, kAesIvLength - pos[t])
       IN /\ kEncryptionIv' = [kEncryptionIv EXCEPT ![call[t].inst] =
                                   CopyBytes(@, call[t].iv, pos[t], n)]
          /\ IF pos[t] + n >= kAesIvLength
             THEN /\ pos' = [pos EXCEPT ![t] = 0]
                  /\ pc' = [pc EXCEPT ![t] = "done"]
                  /\ active' = [active EXCEPT ![call[t].inst] = Pair(call[t].key, call[t].iv)]
             ELSE /\ pos' = [pos EXCEPT ![t] = @ + n]
                  /\ UNCHANGED <<pc, active>>
    /\ UNCHANGED <<threads, fs, kEncryptionKey, model_buffer_, mutex_, call, ctx,
                   outGood, model_data, ret, obs, prov, calls, chunk, handle>>

\* What RAND_bytes returns: 1 when the bytes were generated, 0 when they were
\* not, -1 when the random method does not support the request.
RandStatus == {1, 0, -1}

\* The bytes RAND_bytes generates.
RandKeys == {KeyB}

RandIvs == {IvB}

\* The test !RAND_bytes(...) of line 248 on a status.
RandFailed(status) == status = 0

\* GenerateKeyAndIv(key, iv), lines 248-250, on vectors of kAesKeyLength and
\* kAesIvLength zero bytes as main passes them: RAND_bytes for the key with
\* status kstat, then, unless the first test already failed, RAND_bytes for
\* the IV with status vstat; the runtime_error is thrown when a test fails.
\* Lines 252-264 only log.  No member of the protector is touched.
GenerateKeyAndIv(t, i, kstat, vstat, rk, rv) ==
    /\ CanCall(t)
    /\ calls' = calls + 1
    /\ LET asked == ~RandFailed(kstat)
           kmade == kstat = 1
           vmade == asked /\ vstat = 1
       IN /\ call' = [call EXCEPT ![t] = [NoCall EXCEPT
                         !.name = "GenerateKeyAndIv", !.inst = i,
                         !.key = IF kmade THEN rk ELSE ZeroKey,
                         !.iv = IF vmade THEN rv ELSE ZeroIv]]
          /\ obs' = [obs EXCEPT ![t] = [NoObs EXCEPT !.key_made = kmade, !.iv_made = vmade]]
          /\ ret' = [ret EXCEPT ![t] = [NoRet EXCEPT !.exc =
                         IF RandFailed(kstat) \/ RandFailed(vstat)
                         THEN "runtime_error" ELSE ""]]
    /\ pc' = [pc EXCEPT ![t] = "done"]
    /\ pos' = [pos EXCEPT ![t] = 0]
    /\ UNCHANGED <<threads, fs, kEncryptionKey, kEncryptionIv, model_buffer_, mutex_,
                   ctx, outGood, model_data, prov, chunk, handle, active>>

\* The caller has its result and drops the call's arguments and vector.
Return(t) ==
    /\ t \in threads
    /\ pc[t] = "done"
    /\ pc' = [pc EXCEPT ![t] = "idle"]
    /\ call' = [call EXCEPT ![t] = NoCall]
    /\ pos' = [pos EXCEPT ![t] = 0]
    /\ outGood' = [outGood EXCEPT ![t] = TRUE]
    /\ model_data' = [model_data EXCEPT ![t] = <<>>]
    /\ ret' = [ret EXCEPT ![t] = NoRet]
    /\ obs' = [obs EXCEPT ![t] = NoObs]
    /\ UNCHANGED <<threads, fs, kEncryptionKey, kEncryptionIv, model_buffer_, mutex_,
                   ctx, prov, calls, chunk, handle, active>>

Next ==
    \/ \E t \in Threads : \E i \in InstancesOf(t), inp \in EncInputs, outp \in EncOutputs :
          EncryptFile(t, i, inp, outp)
    \/ \E t \in Threads : EncryptLoop(t)
    \/ \E t \in Threads : EncryptEnd(t)
    \/ \E t \in Threads : \E i \in InstancesOf(t), path \in DecInputs, buffer \in UserBuffers :
          DecryptFileToMemory(t, i, path, buffer)
    \/ \E t \in Threads : DecryptLoop(t)
    \/ \E t \in Threads : DecryptEnd(t)
    \/ \E t \in Threads : \E i \in InstancesOf(t), path \in DecInputs : LoadEncryptedModel(t, i, path)
    \/ \E t \in Threads : LoadLock(t)
    \/ \E t \in Threads : LoadModel(t)
    \/ \E t \in Threads : \E i \in InstancesOf(t), a \in SetArgs : SetCustomKeyAndIv(t, i, a[1], a[2])
    \/ \E t \in Threads : CopyKey(t)
    \/ \E t \in Threads : CopyIv(t)
    \/ \E t \in Threads : \E i \in InstancesOf(t), kstat \in RandStatus, vstat \in RandStatus,
                               rk \in RandKeys, rv \in RandIvs :
          GenerateKeyAndIv(t, i, kstat, vstat, rk, rv)
    \/ \E t \in Threads : Return(t)

Spec == Init /\ [][Next]_vars

SpecSeq == InitSeq /\ [][Next]_vars

\* The file operations alone.
NextChunk ==
    \/ \E t \in Threads : \E i \in InstancesOf(t), inp \in EncInputs, outp \in EncOutputs :
          EncryptFile(t, i, inp, outp)
    \/ \E t \in Threads : EncryptLoop(t)
    \/ \E t \in Threads : EncryptEnd(t)
    \/ \E t \in Threads : \E i \in InstancesOf(t), path \in DecInputs, buffer \in UserBuffers :
          DecryptFileToMemory(t, i, path, buffer)
    \/ \E t \in Threads : DecryptLoop(t)
    \/ \E t \in Threads : DecryptEnd(t)
    \/ \E t \in Threads : Return(t)

\* The next step of the call thread t is in, as it shows on pc and pos: a turn
\* of a file loop (which a std::bad_alloc may end), the end of a loop,
\* LoadModel, a stride of a copy.
Running(t) ==
    \/ /\ pc[t] \in {"enc_loop", "dec_loop"}
       /\ MoreInput(t)
       /\ \/ pc' = pc /\ pos' = [pos EXCEPT ![t] = @ + Gcount(t)]
          \/ pc[t] = "dec_loop" /\ pc' = [pc EXCEPT ![t] = "done"] /\ pos' = pos
    \/ /\ pc[t] \in {"enc_loop", "dec_loop"}
       /\ ~MoreInput(t)
       /\ pc' = [pc EXCEPT ![t] = IF pc[t] = "dec_loop" /\ IsLoad(t) THEN "load_model" ELSE "done"]
       /\ pos' = pos
    \/ /\ pc[t] = "load_model"
       /\ pc' = [pc EXCEPT ![t] = "done"]
       /\ pos' = pos
    \/ /\ pc[t] = "copy_key"
       /\ IF pos[t] + CopyStride >= kAesKeyLength
          THEN pc' = [pc EXCEPT ![t] = "copy_iv"] /\ pos' = [pos EXCEPT ![t] = 0]
          ELSE pc' = pc /\ pos' = [pos EXCEPT ![t] = @ + CopyStride]
    \/ /\ pc[t] = "copy_iv"
       /\ IF pos[t] + CopyStride >= kAesIvLength
          THEN pc' = [pc EXCEPT ![t] = "done"] /\ pos' = [pos EXCEPT ![t] = 0]
          ELSE pc' = pc /\ pos' = [pos EXCEPT ![t] = @ + CopyStride]

\* A thread inside a call goes on running: the loops and copies of a call are
\* straight-line code, so its next step is taken.
Scheduled == \A t \in Threads : WF_<<pc, pos>>(Running(t))

\* The step in which thread t, waiting at the lock_guard of line 225, gets
\* the mutex, as it shows on pc and pos.
Acquires(t) ==
    /\ pc[t] = "lock"
    /\ MayLock(t)
    /\ pc' = [pc EXCEPT ![t] = IF InputOpens(call[t].input) THEN "dec_loop" ELSE "load_model"]
    /\ pos' = [pos EXCEPT ![t] = 0]

\* The mutex is handed out fairly: a caller that finds it free again and
\* again gets it.
FairLock == \A t \in Threads : SF_<<pc, pos>>(Acquires(t))

\* Two threads whose running calls go on, on a fair mutex.
SpecFair == Spec /\ Scheduled /\ FairLock

\* The file operations under every size of the read buffer.
SpecChunk == InitChunk /\ [][NextChunk]_vars /\ Scheduled


\* ----------------------------------------------------------------- claims

Done(t, name) == pc[t] = "done" /\ call[t].name = name

\* The file thread t decrypts was written by EncryptFile under the key and IV
\* of t's session.
OwnCipher(t) ==
    /\ obs[t].started
    /\ prov[call[t].input].made
    /\ prov[call[t].input].key = obs[t].key
    /\ prov[call[t].input].iv = obs[t].iv

\* C1: EncryptFile on P and then DecryptFileToMemory on the file it wrote, into
\* an empty vector and under the same key and IV, leaves the vector equal to P.
C1_RoundTrip ==
    \A t \in Threads :
        (/\ Done(t, "DecryptFileToMemory")
         /\ ret[t].exc = ""
         /\ OwnCipher(t)
         /\ prov[call[t].input].byRun
         /\ obs[t].entry = <<>>)
        => model_data[t] = prov[call[t].input].plain

\* On entry the target vector was empty or held the whole plaintext of an
\* encrypted file: no earlier call on it was cut short.
CleanEntry(t) ==
    obs[t].entry \in {<<>>} \cup {prov[p].plain : p \in {q \in DecInputs : prov[q].made}}

\* C2: the buffer a LoadEncryptedModel call on a valid encrypted file hands to
\* LoadModel holds exactly the plaintext of the file named in that call, also
\* after earlier calls on other valid files.
C2_NoCrossContamination ==
    \A t \in Threads :
        (pc[t] = "load_model" /\ OwnCipher(t) /\ CleanEntry(t))
        => model_buffer_[call[t].inst] = prov[call[t].input].plain

\* C3: a LoadEncryptedModel call whose file cannot be opened returns the null
\* handle, also after an earlier call that loaded a model.
C3_OpenFailureReturnsNull ==
    \A t \in Threads :
        (/\ Done(t, "LoadEncryptedModel")
         /\ ~obs[t].started
         /\ ~fs[call[t].input].exists
         /\ CleanEntry(t))
        => ~ret[t].val

\* C4: a LoadEncryptedModel call whose final decrypt step rejected the padding
\* returns the null handle.
C4_PaddingFailureReturnsNull ==
    \A t \in Threads :
        (Done(t, "LoadEncryptedModel") /\ obs[t].started /\ ~obs[t].final_ok)
        => ~ret[t].val

\* C5: EncryptFile on an input path that does not exist returns false and leaves
\* the file system as it was: no output file is created, an existing one is kept.
C5_MissingInputLeavesNoOutput ==
    [][\A t \in Threads :
          (/\ pc[t] = "idle"
           /\ call'[t].name = "EncryptFile"
           /\ ~fs[call'[t].input].exists)
          => (pc'[t] = "done" /\ ~ret'[t].val /\ fs' = fs)]_vars

\* C6: SetCustomKeyAndIv with a key that is not 32 bytes or an IV that is not 16
\* bytes throws invalid_argument and leaves the stored key and IV as they
\* were; with both lengths right, the stored key and IV are the arguments when
\* it returns.
C6_SetValidatesBeforeMutating ==
    [][\A t \in Threads :
          /\ (pc[t] = "idle" /\ call'[t].name = "SetCustomKeyAndIv")
             => IF Len(call'[t].key) = 32 /\ Len(call'[t].iv) = 16
                THEN pc'[t] = "copy_key"
                ELSE /\ pc'[t] = "done"
                     /\ ret'[t].exc = "invalid_argument"
                     /\ kEncryptionKey' = kEncryptionKey
                     /\ kEncryptionIv' = kEncryptionIv
          /\ (call[t].name = "SetCustomKeyAndIv" /\ pc[t] # "done" /\ pc'[t] = "done"
              /\ ret'[t].exc = "")
             => /\ kEncryptionKey'[call[t].inst] = call[t].key
                /\ kEncryptionIv'[call[t].inst] = call[t].iv]_vars

\* C6 witness: a call with a well-formed pair installed it, and the next call,
\* with a 33-byte key and a good IV, was rejected and left it in place.
C6_Witness ==
    /\ calls = 2
    /\ Done(1, "SetCustomKeyAndIv")
    /\ ret[1].exc = "invalid_argument"
    /\ Len(call[1].key) = 33
    /\ Len(call[1].iv) = 16
    /\ kEncryptionKey[1] = KeyB
    /\ kEncryptionIv[1] = IvB

InSection(t) == IsLoad(t) /\ pc[t] \in {"dec_loop", "load_model"}

\* C7: at most one LoadEncryptedModel call is between taking the mutex and
\* releasing it, over all threads and all instances, and it is the holder.
C7_MutualExclusion ==
    /\ Cardinality({t \in Threads : InSection(t)}) <= 1
    /\ \A t \in Threads : InSection(t) <=> mutex_ = t

\* C7 witness: one call decrypts inside the section while a call on another
\* instance and another file waits for the mutex.
C7_Witness ==
    \E t, u \in Threads :
        /\ InSection(t)
        /\ pc[t] = "dec_loop"
        /\ pos[t] > 0
        /\ pc[u] = "lock"
        /\ call[u].inst # call[t].inst
        /\ call[u].input # call[t].input

\* The pairs a session may be started with: the default, or one SetCustomKeyAndIv
\* installed.
WholePairs == {<<ZeroKey, ZeroIv>>} \cup {a \in SetArgs : Len(a[1]) = 32 /\ Len(a[2]) = 16}

\* C8: every cipher session is initialised with the default pair or with a pair
\* one successful SetCustomKeyAndIv installed, never with a mix.
C8_KeyIvNeverTorn ==
    \A t \in Threads : obs[t].started => <<obs[t].key, obs[t].iv>> \in WholePairs

\* C9: once the files are open, EncryptFile returns true exactly when every
\* write to the output file succeeded.
C9_ReturnReportsSuccess ==
    \A t \in Threads :
        (Done(t, "EncryptFile") /\ obs[t].started) => (ret[t].val <=> obs[t].written)

Encrypted(t) ==
    /\ Done(t, "EncryptFile")
    /\ obs[t].started
    /\ obs[t].written
    /\ ret[t].val

\* C10: after a successful EncryptFile of an n-byte input the output file holds
\* n + (16 - n mod 16) bytes.
C10_CiphertextLength ==
    \A t \in Threads :
        Encrypted(t) =>
            LET n == Len(fs[call[t].input].data)
            IN Len(fs[call[t].output].data) = n + (16 - (n % 16))

\* C10 witness: an input of three chunks and four bytes has been encrypted
\* into a file twelve bytes longer.
C10_Witness ==
    /\ Encrypted(1)
    /\ Len(fs[call[1].input].data) = 3 * ChunkSize + 4
    /\ Len(fs[call[1].output].data) = 3 * ChunkSize + 16

\* C11: for a fixed key, IV and input, the file a successful EncryptFile wrote
\* is the CBC encryption of the padded input as one piece, whatever the size of
\* the read buffer: the same bytes for every size.
C11_ChunkSizeIndependence ==
    \A t \in Threads :
        Encrypted(t) =>
            fs[call[t].output].data = Cbc256(fs[call[t].input].data, obs[t].key, obs[t].iv)

\* C11 witness: the longest input was encrypted through a read buffer of one
\* byte more than a block, so that every turn carried a partial block over.
C11_Witness ==
    /\ Encrypted(1)
    /\ chunk = BlockSize + 1
    /\ Len(fs[call[1].input].data) = 3 * ChunkSize + 4

\* C12: GenerateKeyAndIv throws its runtime_error whenever RAND_bytes did not
\* generate the key or the IV, whatever status it returned, and returns
\* normally only when both were generated.
C12_RandomFailureIsAnError ==
    \A t \in Threads :
        Done(t, "GenerateKeyAndIv") =>
            (ret[t].exc = "runtime_error" <=> ~(obs[t].key_made /\ obs[t].iv_made))

\* C13: no step of a DecryptFileToMemory call creates or writes a file, and a
\* call whose input cannot be opened returns at once, without an exception and
\* with the caller's vector as it was passed in.
C13_DecryptLeavesFilesAndBuffer ==
    [][\A t \in Threads :
          /\ (call'[t].name = "DecryptFileToMemory" /\ <<pc'[t], pos'[t], call'[t]>> # <<pc[t], pos[t], call[t]>>)
             => fs' = fs
          /\ (pc[t] = "idle" /\ call'[t].name = "DecryptFileToMemory" /\ ~fs[call'[t].input].exists)
             => /\ pc'[t] = "done"
                /\ ret'[t].exc = ""
                /\ ~obs'[t].started
                /\ model_data'[t] = obs'[t].entry]_vars

\* C13 witness: a call on a missing file has returned and the caller's vector
\* still holds the three bytes it held on entry.
C13_Witness ==
    /\ Done(1, "DecryptFileToMemory")
    /\ ~fs[call[1].input].exists
    /\ ~obs[1].started
    /\ model_data[1] = <<1, 2, 3>>

\* The ciphertext of the whole blocks among the bytes fed so far.
WholeBlocks(t) ==
    CbcEnc(obs[t].key, obs[t].iv, obs[t].fed, 1, Len(obs[t].fed) \div BlockSize)

\* What holds of an EncryptFile run that opened both files: inside the loop the
\* bytes fed are the bytes read so far, in file order, no final step has run
\* and the output holds what the update steps returned; on return the whole
\* input was fed, the final step ran once and its block is the last of the file.
InOrder(t) ==
    (call[t].name = "EncryptFile" /\ obs[t].started) =>
        LET data == fs[call[t].input].data
            out  == fs[call[t].output].data
        IN /\ pc[t] = "enc_loop" =>
                 /\ obs[t].fed = SubSeq(data, 1, pos[t])
                 /\ obs[t].finals = 0
                 /\ obs[t].written => out = WholeBlocks(t)
           /\ pc[t] = "done" =>
                 /\ obs[t].fed = data
                 /\ obs[t].finals = 1
                 /\ obs[t].written =>
                       /\ Len(out) = Len(WholeBlocks(t)) + BlockSize
                       /\ out = WholeBlocks(t) \o Tail16(out)

\* C14: in every EncryptFile run that opens both files each input byte is fed
\* to the cipher once and in file order, what each update step returned is in
\* the output before the next read, the final step runs once, after the last
\* chunk, and its bytes come last; and the loop ends for every input.
C14_EncryptSessionOrder ==
    /\ [](\A t \in Threads : InOrder(t))
    /\ \A t \in Threads : (pc[t] = "enc_loop") ~> (pc[t] = "done")

\* C14 witness: an input of exactly two read buffers has been encrypted; the
\* final step ran once, after both buffers were fed.
C14_Witness ==
    /\ Encrypted(1)
    /\ chunk = ChunkSize
    /\ Len(fs[call[1].input].data) = 2 * ChunkSize
    /\ obs[1].fed = fs[call[1].input].data
    /\ obs[1].finals = 1

\* C15: the vector a returned model handle was built over stays as it was when
\* the handle was built: no later LoadEncryptedModel call on the instance
\* appends to it (and so modifies it or moves its storage) while the caller
\* holds the handle.
C15_HandleBufferUntouched ==
    \A i \in Instances :
        handle[i] # NoHandle => Len(model_buffer_[i]) = handle[i]

\* The pair in force on instance i: the one the last SetCustomKeyAndIv that
\* returned normally stored, or the all-zero pair of the constructor.
InForce(i) ==
    IF active[i].set THEN <<active[i].key, active[i].iv>> ELSE <<ZeroKey, ZeroIv>>

Copying(i) ==
    \E t \in Threads :
        /\ call[t].name = "SetCustomKeyAndIv"
        /\ call[t].inst = i
        /\ pc[t] \in {"copy_key", "copy_iv"}

\* C16: the stored key and IV are all-zero after construction and change only
\* in the copies of a SetCustomKeyAndIv call whose lengths were accepted; the
\* steps of GenerateKeyAndIv, EncryptFile, DecryptFileToMemory, LoadModel,
\* LoadEncryptedModel and a rejected SetCustomKeyAndIv leave them as they are,
\* and every cipher session is started with the pair in force.
C16_KeyIvChangeOnlyBySet ==
    /\ [](\A i \in Instances :
             ~Copying(i) => <<kEncryptionKey[i], kEncryptionIv[i]>> = InForce(i))
    /\ [](\A t \in Threads :
             obs[t].started => <<obs[t].key, obs[t].iv>> = InForce(call[t].inst))
    /\ [][\A i \in Instances :
             <<kEncryptionKey[i], kEncryptionIv[i]>>' # <<kEncryptionKey[i], kEncryptionIv[i]>>
             => \E t \in Threads :
                   /\ call[t].name = "SetCustomKeyAndIv"
                   /\ call[t].inst = i
                   /\ pc[t] \in {"copy_key", "copy_iv"}
                   /\ Len(call[t].key) = 32
                   /\ Len(call[t].iv) = 16]_vars

\* C16 witness: GenerateKeyAndIv has filled the caller's vectors on a freshly
\* constructed protector, whose stored key and IV are still all-zero.
C16_Witness ==
    /\ Done(1, "GenerateKeyAndIv")
    /\ ret[1].exc = ""
    /\ call[1].key = KeyB
    /\ call[1].iv = IvB
    /\ ~active[1].set
    /\ kEncryptionKey[1] = ZeroKey
    /\ kEncryptionIv[1] = ZeroIv

\* C17: the mutex is free whenever no LoadEncryptedModel call is between the
\* lock_guard and its return, whichever way the call ended (a handle, null, a
\* caught exception), and every caller waiting for it gets it and returns.
C17_LockAlwaysReleased ==
    /\ []((\A t \in Threads : ~InSection(t)) => mutex_ = NoThread)
    /\ [](\A t \in Threads : Done(t, "LoadEncryptedModel") => mutex_ # t)
    /\ \A t \in Threads : (pc[t] = "lock") ~> (pc[t] = "done")

\* C17 witness: a call has ended through the catch of line 229 and left the
\* mutex free while another caller is waiting for it.
C17_Witness ==
    \E t, u \in Threads :
        /\ Done(t, "LoadEncryptedModel")
        /\ obs[t].caught
        /\ ~ret[t].val
        /\ mutex_ = NoThread
        /\ pc[u] = "lock"

\* Size of cipher_buffer (line 145) and plain_buffer (line 186).
StagingSize == chunk + EVP_MAX_BLOCK_LENGTH

\* C18: no update step and no final step of EncryptFile or DecryptFileToMemory
\* reports more bytes than the read buffer's size plus 16, which is within the
\* staging buffer, so neither the write nor the insert reaches past its end.
C18_StagingNeverOverflows ==
    \A t \in Threads :
        /\ obs[t].out_max >= 0
        /\ obs[t].out_max <= chunk + 16
        /\ obs[t].out_max <= StagingSize

\* C18 witness: with a read buffer of one byte a decrypt step that was passed
\* one byte returned the 16 bytes of the block held back, 15 more than it read.
C18_Witness ==
    /\ call[1].name = "DecryptFileToMemory"
    /\ obs[1].started
    /\ pc[1] = "dec_loop"
    /\ chunk = 1
    /\ obs[1].out_max = chunk + 15

====
